---- MODULE Spec2Model ----
(***************************************************************************)
(* Model of the StateManager class (src/StateManager.cpp).                 *)
(*                                                                         *)
(* The class keeps a vector of State records (`states`), a private State   *)
(* member `dummyState`, and a reference member `activeState` that the      *)
(* constructor binds to `dummyState`.  A C++ reference is never re-seated, *)
(* so every later `activeState = x` is a copy-assignment INTO dummyState,  *)
(* and `activeState = dummyState` is a self-assignment.                    *)
(*                                                                         *)
(* Function pointers are modelled as handles (strings).  addState leaves   *)
(* both pointers of a new State uninitialised; calling through such a      *)
(* pointer is undefined behaviour and is modelled as a nondeterministic    *)
(* choice between returning true, returning false and faulting.            *)
(***************************************************************************)
EXTENDS Integers, Sequences, FiniteSets

VARIABLES
    states,      \* vector<State> states
    dummyState,  \* State dummyState, the object activeState refers to
    noStates,    \* bool noStates
    crashed,     \* the process faulted in a call through a garbage pointer
    lastOp,      \* the member function called last
    lastName,    \* its stateName argument ("" when it has none)
    lastFn,      \* its function-pointer argument ("" when it has none)
    lastRet,     \* its return value
    calls        \* what that call did, in order: callbacks invoked, assignments to activeState

vars == <<states, dummyState, noStates, crashed, lastOp, lastName, lastFn, lastRet, calls>>

----------------------------------------------------------------------------
(* Inputs *)

\* Names the embedder gives its states.
UserNames == {"A", "B"}

\* The name the constructor gives the sentinel.
DummyName == "dummyState"

\* Names the embedder passes to the member functions: its own and the
\* sentinel's.
Names == UserNames \cup {DummyName}

\* Pointers the embedder passes to setStateFunction.
TickFns == {"retTrue"}

\* Pointers of an embedder that binds a second function to a state: the
\* lambda of Test.cpp with q = 1 and with q = 0.
RebindFns == TickFns \cup {"retFalse"}

\* Pointers the embedder passes to setTransitionToState: `transition` of
\* Test.cpp, which accepts every active state.
AdvFns == {"transition"}

\* Cap on the length of the vector (addState itself has no limit).
MaxStates == 2

\* What a call through a pointer can do.
Outcomes == {"true", "false", "fault"}

----------------------------------------------------------------------------
(* The State record and the callbacks *)

\* A State object.
State(n, f, t) == [stateName |-> n, stateFunction |-> f, transitionToState |-> t]

\* dummyState as the constructor leaves it.
Sentinel == State(DummyName, "dummyStateFunction", "dummyTransitionToState")

\* `State state; state.stateName = stateName;` -- both pointers indeterminate.
NewState(stateName) == State(stateName, "uninit", "uninit")

\* activeState is a reference bound to dummyState for the object's lifetime.
activeState == dummyState

\* What calling s.stateFunction() can do; a garbage pointer can do anything.
CallStateFunction(f) ==
    CASE f = "dummyStateFunction" -> {"false"}
      [] f = "retTrue" -> {"true"}
      [] f = "retFalse" -> {"false"}
      [] OTHER -> Outcomes

\* What calling s.transitionToState(a) can do.
CallTransitionToState(t, a) ==
    CASE t = "dummyTransitionToState" -> {"false"}
      [] t = "transition" -> {"true"}
      [] OTHER -> Outcomes

\* One outcome for the transitionToState of every entry of the vector, called
\* with the active state's name.
ScanOutcomes ==
    {o \in [1..Len(states) -> Outcomes] :
        \A i \in 1..Len(states) :
            o[i] \in CallTransitionToState(states[i].transitionToState, dummyState.stateName)}

\* State::operator==
StateEq(s1, s2) == s1.stateName = s2.stateName

\* getStateByName: index of the first entry with that name, 0 for nullptr.
getStateByName(stateName) ==
    IF \E i \in 1..Len(states) : states[i].stateName = stateName
    THEN CHOOSE i \in 1..Len(states) :
            /\ states[i].stateName = stateName
            /\ \A j \in 1..(i - 1) : states[j].stateName # stateName
    ELSE 0

\* Events recorded in `calls`.
TickEvent(s, out) == [kind |-> "tick", name |-> s.stateName, fn |-> s.stateFunction, out |-> out]
AdvEvent(s, out) == [kind |-> "advertise", name |-> s.stateName, fn |-> s.transitionToState, out |-> out]
AssignEvent(s) == [kind |-> "assign", name |-> s.stateName, fn |-> s.transitionToState, out |-> ""]
ResetEvent(s) == [kind |-> "reset", name |-> s.stateName, fn |-> s.transitionToState, out |-> ""]
ReinstallEvent(s) == [kind |-> "reinstall", name |-> s.stateName, fn |-> s.transitionToState, out |-> ""]

\* A call that returned.
Returns(op, name, fn, ret, cs) ==
    /\ lastOp' = op
    /\ lastName' = name
    /\ lastFn' = fn
    /\ lastRet' = ret
    /\ calls' = cs
    /\ crashed' = FALSE

\* A call that faulted in a callback: the process is gone.
Faults(op, name, fn, cs) ==
    /\ lastOp' = op
    /\ lastName' = name
    /\ lastFn' = fn
    /\ lastRet' = FALSE
    /\ calls' = cs
    /\ crashed' = TRUE
    /\ UNCHANGED <<states, dummyState, noStates>>

----------------------------------------------------------------------------
(* Construction *)

Init ==
    /\ states = <<>>
    /\ dummyState = Sentinel
    /\ noStates = TRUE
    /\ crashed = FALSE
    /\ lastOp = "StateManager"
    /\ lastName = ""
    /\ lastFn = ""
    /\ lastRet = FALSE
    /\ calls = <<>>

----------------------------------------------------------------------------
(* run *)

\* bool run(): the tick of the active state, no scan.
run ==
    /\ ~crashed
    /\ \E stateRan \in CallStateFunction(activeState.stateFunction) :
        LET cs == <<TickEvent(activeState, stateRan)>>
        IN  IF stateRan = "fault"
            THEN Faults("run", "", "", cs)
            ELSE /\ Returns("run", "", "", stateRan = "true", cs)
                 /\ UNCHANGED <<states, dummyState, noStates>>

\* Smallest element of a non-empty set of indices.
Min(S) == CHOOSE i \in S : \A j \in S : i <= j

\* runMatch without the comparison of names.
runMatchAnyName(s, out) == out = "true"

\* The condition of the `if` in run(bool)'s loop, given what the call returned.
runMatch(s, out) == out = "true" /\ activeState.stateName # s.stateName

\* The for loop of run(bool); o[i] is what the call of entry i does.
\* hit is the index assigned to activeState (0: the loop ran to the end).
runLoop(o) ==
    LET out(i) == o[i]
        stops == {i \in 1..Len(states) : out(i) = "fault" \/ runMatch(states[i], out(i))}
        last == IF stops = {} THEN Len(states) ELSE Min(stops)
        fault == stops # {} /\ out(last) = "fault"
    IN  [events |-> [i \in 1..last |-> AdvEvent(states[i], out(i))],
         hit |-> IF stops # {} /\ ~fault THEN last ELSE 0,
         fault |-> fault]

\* run(bool) returning whether the loop assigned activeState, as transition() does.
runTransitionTooReturnsScan(transitionToo) ==
    /\ ~crashed
    /\ \E stateRan \in CallStateFunction(activeState.stateFunction) :
        LET op == IF transitionToo THEN "run(true)" ELSE "run(false)"
            tick == <<TickEvent(activeState, stateRan)>>
        IN  IF stateRan = "fault"
            THEN Faults(op, "", "", tick)
            ELSE IF ~transitionToo
            THEN /\ Returns(op, "", "", stateRan = "true", tick)
                 /\ UNCHANGED <<states, dummyState, noStates>>
            ELSE \E o \in ScanOutcomes :
                LET loop == runLoop(o)
                IN  IF loop.fault
                    THEN Faults(op, "", "", tick \o loop.events)
                    ELSE IF loop.hit # 0
                    THEN /\ dummyState' = states[loop.hit]
                         /\ Returns(op, "", "", TRUE,
                                    tick \o loop.events \o <<AssignEvent(states[loop.hit])>>)
                         /\ UNCHANGED <<states, noStates>>
                    ELSE /\ Returns(op, "", "", FALSE, tick \o loop.events)
                         /\ UNCHANGED <<states, dummyState, noStates>>

\* bool run(bool transitionToo)
runTransitionToo(transitionToo) ==
    /\ ~crashed
    /\ \E stateRan \in CallStateFunction(activeState.stateFunction) :
        LET op == IF transitionToo THEN "run(true)" ELSE "run(false)"
            tick == <<TickEvent(activeState, stateRan)>>
        IN  IF stateRan = "fault"
            THEN Faults(op, "", "", tick)
            ELSE IF ~transitionToo
            THEN /\ Returns(op, "", "", stateRan = "true", tick)
                 /\ UNCHANGED <<states, dummyState, noStates>>
            ELSE \E o \in ScanOutcomes :
                LET loop == runLoop(o)
                IN  IF loop.fault
                    THEN Faults(op, "", "", tick \o loop.events)
                    ELSE IF loop.hit # 0
                    THEN /\ dummyState' = states[loop.hit]
                         /\ Returns(op, "", "", stateRan = "true",
                                    tick \o loop.events \o <<AssignEvent(states[loop.hit])>>)
                         /\ UNCHANGED <<states, noStates>>
                    ELSE /\ Returns(op, "", "", stateRan = "true", tick \o loop.events)
                         /\ UNCHANGED <<states, dummyState, noStates>>

----------------------------------------------------------------------------
(* transition *)

\* transitionMatch without the comparison of names.
transitionMatchAnyName(s, out) == out = "true"

\* The condition of the `if` in transition()'s loop, given what the call returned.
transitionMatch(s, out) == out = "true" /\ activeState.stateName # s.stateName

\* Largest element of a non-empty set of indices.
Max(S) == CHOOSE i \in S : \A j \in S : j <= i

\* transitionLoop without the `return` in the body of the `if`: every entry is
\* called and the last match is the one left assigned.
transitionLoopNoReturn(o) ==
    LET out(i) == o[i]
        faults == {i \in 1..Len(states) : out(i) = "fault"}
        last == IF faults = {} THEN Len(states) ELSE Min(faults)
        hits == {i \in 1..last : transitionMatch(states[i], out(i))}
    IN  [events |-> [i \in 1..last |-> AdvEvent(states[i], out(i))],
         hit |-> IF faults = {} /\ hits # {} THEN Max(hits) ELSE 0,
         fault |-> faults # {}]

\* The for loop of transition().
transitionLoop(o) ==
    LET out(i) == o[i]
        stops == {i \in 1..Len(states) : out(i) = "fault" \/ transitionMatch(states[i], out(i))}
        last == IF stops = {} THEN Len(states) ELSE Min(stops)
        fault == stops # {} /\ out(last) = "fault"
    IN  [events |-> [i \in 1..last |-> AdvEvent(states[i], out(i))],
         hit |-> IF stops # {} /\ ~fault THEN last ELSE 0,
         fault |-> fault]

\* bool transition()
transition ==
    /\ ~crashed
    /\ \E o \in ScanOutcomes :
        LET loop == transitionLoop(o)
        IN  IF loop.fault
            THEN Faults("transition", "", "", loop.events)
            ELSE IF loop.hit # 0
            THEN /\ dummyState' = states[loop.hit]
                 /\ Returns("transition", "", "", TRUE,
                            loop.events \o <<AssignEvent(states[loop.hit])>>)
                 /\ UNCHANGED <<states, noStates>>
            ELSE /\ Returns("transition", "", "", FALSE, loop.events)
                 /\ UNCHANGED <<states, dummyState, noStates>>

\* transition(stateName) that falls back to the sentinel when the name is unknown.
transitionToResetsOnMiss(stateName) ==
    /\ ~crashed
    /\ LET state == getStateByName(stateName)
       IN  IF state = 0
           THEN /\ dummyState' = Sentinel
                /\ Returns("transitionTo", stateName, "", FALSE, <<>>)
                /\ UNCHANGED <<states, noStates>>
           ELSE /\ dummyState' = states[state]
                /\ Returns("transitionTo", stateName, "", TRUE, <<AssignEvent(states[state])>>)
                /\ UNCHANGED <<states, noStates>>

\* bool transition(string stateName)
transitionTo(stateName) ==
    /\ ~crashed
    /\ LET state == getStateByName(stateName)
       IN  IF state = 0
           THEN /\ Returns("transitionTo", stateName, "", FALSE, <<>>)
                /\ UNCHANGED <<states, dummyState, noStates>>
           ELSE /\ dummyState' = states[state]
                /\ Returns("transitionTo", stateName, "", TRUE, <<AssignEvent(states[state])>>)
                /\ UNCHANGED <<states, noStates>>

----------------------------------------------------------------------------
(* addState, removeState *)

\* addState without the getStateByName check.
addStateUnchecked(stateName) ==
    /\ ~crashed
    /\ Len(states) < MaxStates
    /\ states' = Append(states, NewState(stateName))
    /\ Returns("addState", stateName, "", TRUE, <<>>)
    /\ UNCHANGED <<dummyState, noStates>>

\* addState that re-initialises the entry it finds before reporting false.
addStateOverwrites(stateName) ==
    /\ ~crashed
    /\ getStateByName(stateName) # 0 \/ Len(states) < MaxStates
    /\ LET checkIfExists == getStateByName(stateName)
       IN  IF checkIfExists # 0
           THEN /\ states' = [states EXCEPT ![checkIfExists] = NewState(stateName)]
                /\ Returns("addState", stateName, "", FALSE, <<>>)
                /\ UNCHANGED <<dummyState, noStates>>
           ELSE /\ states' = Append(states, NewState(stateName))
                /\ Returns("addState", stateName, "", TRUE, <<>>)
                /\ UNCHANGED <<dummyState, noStates>>

\* bool addState(string stateName), with the vector capped at cap entries; the
\* cap stops only the push_back.
addStateWithin(stateName, cap) ==
    /\ ~crashed
    /\ getStateByName(stateName) # 0 \/ Len(states) < cap
    /\ LET checkIfExists == getStateByName(stateName)
       IN  IF checkIfExists # 0
           THEN /\ Returns("addState", stateName, "", FALSE, <<>>)
                /\ UNCHANGED <<states, dummyState, noStates>>
           ELSE /\ states' = Append(states, NewState(stateName))
                /\ Returns("addState", stateName, "", TRUE, <<>>)
                /\ UNCHANGED <<dummyState, noStates>>

\* bool addState(string stateName)
addState(stateName) == addStateWithin(stateName, MaxStates)

\* An erase that drops the last element whatever k is (pop_back).
EraseLast(seq, k) == SubSeq(seq, 1, Len(seq) - 1)

\* The sequence without its k-th element (vector::erase).
Erase(seq, k) == [i \in 1..(Len(seq) - 1) |-> IF i < k THEN seq[i] ELSE seq[i + 1]]

\* std::find(begin, end, value): index of the first element == value.
Find(seq, value) == Min({i \in 1..Len(seq) : StateEq(seq[i], value)})

\* A reset that installs the sentinel whichever state is removed.
removeStateResetAlways(stateName) == Sentinel

\* dummyState after `if (activeState.stateName == stateName) activeState = dummyState;`:
\* the assignment copies dummyState onto itself.
removeStateReset(stateName) ==
    IF activeState.stateName = stateName THEN dummyState ELSE dummyState

\* bool removeState(string stateName)
removeState(stateName) ==
    /\ ~crashed
    /\ LET state == getStateByName(stateName)
       IN  IF state = 0
           THEN /\ Returns("removeState", stateName, "", FALSE, <<>>)
                /\ UNCHANGED <<states, dummyState, noStates>>
           ELSE LET reset == removeStateReset(stateName)
                    erased == Erase(states, Find(states, states[state]))
                    cs1 == IF activeState.stateName = stateName
                           THEN <<ResetEvent(reset)>> ELSE <<>>
                IN  IF Len(erased) = 0
                    THEN /\ noStates' = TRUE
                         /\ dummyState' = reset
                         /\ states' = Append(erased, reset)
                         /\ Returns("removeState", stateName, "", TRUE,
                                    cs1 \o <<ReinstallEvent(reset)>>)
                    ELSE /\ dummyState' = reset
                         /\ states' = erased
                         /\ Returns("removeState", stateName, "", TRUE, cs1)
                         /\ UNCHANGED noStates

----------------------------------------------------------------------------
(* setStateFunction, setTransitionToState *)

\* setStateFunction that binds the function to every entry of the vector.
setStateFunctionAll(stateName, stateFunction) ==
    /\ ~crashed
    /\ LET state == getStateByName(stateName)
       IN  IF state = 0
           THEN /\ Returns("setStateFunction", stateName, stateFunction, FALSE, <<>>)
                /\ UNCHANGED <<states, dummyState, noStates>>
           ELSE /\ states' = [i \in 1..Len(states) |->
                                [states[i] EXCEPT !.stateFunction = stateFunction]]
                /\ Returns("setStateFunction", stateName, stateFunction, TRUE, <<>>)
                /\ UNCHANGED <<dummyState, noStates>>

\* bool setStateFunction(string stateName, bool (*stateFunction)())
setStateFunction(stateName, stateFunction) ==
    /\ ~crashed
    /\ LET state == getStateByName(stateName)
       IN  IF state = 0
           THEN /\ Returns("setStateFunction", stateName, stateFunction, FALSE, <<>>)
                /\ UNCHANGED <<states, dummyState, noStates>>
           ELSE /\ states' = [states EXCEPT ![state].stateFunction = stateFunction]
                /\ Returns("setStateFunction", stateName, stateFunction, TRUE, <<>>)
                /\ UNCHANGED <<dummyState, noStates>>

\* bool setTransitionToState(string stateName, bool (*transitionToState)(string))
setTransitionToState(stateName, transitionToState) ==
    /\ ~crashed
    /\ LET state == getStateByName(stateName)
       IN  IF state = 0
           THEN /\ Returns("setTransitionToState", stateName, transitionToState, FALSE, <<>>)
                /\ UNCHANGED <<states, dummyState, noStates>>
           ELSE /\ states' = [states EXCEPT ![state].transitionToState = transitionToState]
                /\ Returns("setTransitionToState", stateName, transitionToState, TRUE, <<>>)
                /\ UNCHANGED <<dummyState, noStates>>

----------------------------------------------------------------------------
(* The embedder calls the member functions in any order. *)

\* One call other than addState, with a name taken from N where the function
\* takes a name.
CallOther(N) ==
    \/ \E stateName \in N, f \in TickFns : setStateFunction(stateName, f)
    \/ \E stateName \in N, t \in AdvFns : setTransitionToState(stateName, t)
    \/ \E stateName \in N : transitionTo(stateName)
    \/ \E stateName \in N : removeState(stateName)
    \/ transition
    \/ run
    \/ \E transitionToo \in BOOLEAN : runTransitionToo(transitionToo)

\* One call, with a name taken from N where the function takes a name.
Call(N) ==
    \/ \E stateName \in N : addState(stateName)
    \/ CallOther(N)

Next == Call(Names)

Spec == Init /\ [][Next]_vars

\* The embedder that never passes the sentinel's name.
NextUser == Call(UserNames)

SpecUser == Init /\ [][NextUser]_vars

\* The embedder that adds states under its own names only, and passes any
\* name to the other member functions.
NextOwnStates ==
    \/ \E stateName \in UserNames : addState(stateName)
    \/ CallOther(Names)

SpecOwnStates == Init /\ [][NextOwnStates]_vars

\* The embedder of SpecUser with room for one more entry, so that its two
\* states can stand behind a reinstalled sentinel.
NextUserWide ==
    \/ \E stateName \in UserNames : addStateWithin(stateName, MaxStates + 1)
    \/ CallOther(UserNames)

SpecUserWide == Init /\ [][NextUserWide]_vars

\* The embedder that drives its states with run() alone and binds either
\* function to them.
NextRebind ==
    \/ \E stateName \in UserNames : addState(stateName)
    \/ \E stateName \in UserNames, f \in RebindFns : setStateFunction(stateName, f)
    \/ \E stateName \in UserNames : transitionTo(stateName)
    \/ \E stateName \in UserNames : removeState(stateName)
    \/ run

SpecRebind == Init /\ [][NextRebind]_vars

----------------------------------------------------------------------------
(* Vocabulary of the properties *)

\* string getActiveStateName(): "the name of the active state".
ActiveName == activeState.stateName

\* The names in the registry.
RegistryNames == {states[i].stateName : i \in 1..Len(states)}

\* The call just made was op and it returned.
Returned(op) == lastOp = op /\ ~crashed

\* The call just made was a removeState that found the active state's name.
RemovedActive ==
    /\ Returned("removeState")
    /\ lastRet
    /\ \E i \in 1..Len(calls) : calls[i].kind = "reset"

\* The call just made was a removeState that emptied the vector.
RemovedLast ==
    /\ Returned("removeState")
    /\ lastRet
    /\ \E i \in 1..Len(calls) : calls[i].kind = "reinstall"

----------------------------------------------------------------------------
(* C1 -- Active-in-registry: the active state's name is "dummyState" or the
   name of an entry of the registry.  removeState's reset of the active state
   assigns dummyState to itself, so the name of a removed state stays active. *)
ActiveInRegistry == ActiveName = DummyName \/ ActiveName \in RegistryNames

(* C2 -- Removal cleanup: a removeState of the active state's name leaves
   "dummyState" active, and a run() / run(false) that follows it returns
   false. *)
RemovalCleanup ==
    [][/\ (lastOp' = "removeState" /\ lastRet' /\ lastName' = ActiveName)
            => dummyState'.stateName = DummyName
       /\ (RemovedActive /\ lastOp' \in {"run", "run(false)"})
            => (~crashed' /\ ~lastRet')]_vars

(* C3 -- a removeState that removes the last remaining entry leaves exactly
   one entry in the registry, the sentinel, and leaves the sentinel active. *)
RemoveLastLeavesSentinel ==
    [][(Len(states) = 1 /\ lastOp' = "removeState" /\ lastRet')
            => (states' = <<Sentinel>> /\ dummyState' = Sentinel)]_vars

(* C4 -- Sentinel floor: when the registry holds no state the user added (it
   has no entry under a user's name, or its only entry is the one
   removeState put back after emptying it), it holds the sentinel and the
   sentinel is active.  This is claimed of the freshly constructed object
   too. *)
SentinelFloor ==
    ((\A i \in 1..Len(states) : states[i].stateName = DummyName) \/ RemovedLast)
        => /\ \E i \in 1..Len(states) : states[i] = Sentinel
           /\ dummyState = Sentinel

(* C5 -- Name uniqueness: no two registry entries have the same name. *)
NameUniqueness ==
    \A i, j \in 1..Len(states) : states[i].stateName = states[j].stateName => i = j

\* C5 witness: an addState succeeded behind the sentinel removeState reinstalled.
NameUniquenessWitness ==
    /\ Returned("addState")
    /\ lastRet
    /\ Len(states) = 2
    /\ states[1] = Sentinel
    /\ states[2].stateName = lastName

\* How many entries a scan called.
NumAdv(cs) == Cardinality({i \in 1..Len(cs) : cs[i].kind = "advertise"})

(* C6 -- First-match scan: transition() called with active name A returns
   true and makes active the earliest entry, in insertion order, whose
   transitionToState(A) returned true and whose name differs from A; when
   there is none it returns false and leaves the active state as it was.
   The entries are called in insertion order and the registry is untouched. *)
FirstMatchScan ==
    [][(lastOp' = "transition" /\ ~crashed') =>
          LET A == ActiveName
              n == NumAdv(calls')
              Advertises(i) ==
                  IF i <= n THEN calls'[i].out = "true"
                  ELSE CallTransitionToState(states[i].transitionToState, A) = {"true"}
              Cands == {i \in 1..Len(states) : Advertises(i) /\ states[i].stateName # A}
          IN  /\ states' = states
              /\ n <= Len(states)
              /\ \A i \in 1..n : /\ calls'[i].kind = "advertise"
                                 /\ calls'[i].name = states[i].stateName
              /\ IF Cands # {}
                 THEN lastRet' /\ dummyState' = states[Min(Cands)]
                 ELSE ~lastRet' /\ dummyState' = dummyState]_vars

\* C6 witness: transition() passed over the first entry, which accepted but is
\* the active state itself, and made the second entry active.
FirstMatchScanWitness ==
    /\ Returned("transition")
    /\ lastRet
    /\ Len(states) = 2
    /\ dummyState = states[2]
    /\ calls[1].kind = "advertise"
    /\ calls[1].name = states[1].stateName
    /\ calls[1].out = "true"

(* C7 -- run(true) ordering: run(true) calls the stateFunction of the state
   active at entry once, before any transitionToState, and returns what it
   returned whether or not the loop assigns activeState; from the sentinel
   it returns false. *)
RunTrueOrdering ==
    [][lastOp' = "run(true)" =>
          /\ Len(calls') >= 1
          /\ calls'[1] = TickEvent(dummyState, calls'[1].out)
          /\ \A i \in 2..Len(calls') : calls'[i].kind # "tick"
          /\ ~crashed' => lastRet' = (calls'[1].out = "true")
          /\ (~crashed' /\ dummyState = Sentinel) => ~lastRet']_vars

\* C7 witness: run(true) from the sentinel returned false and left active a
\* user state whose bound predicate accepted "dummyState".
RunTrueOrderingWitness ==
    /\ Returned("run(true)")
    /\ ~lastRet
    /\ calls[1] = TickEvent(Sentinel, "false")
    /\ calls[Len(calls)].kind = "assign"
    /\ ActiveName # DummyName
    /\ dummyState.transitionToState = "transition"

(* C8 -- Scan equivalence: the loop of run(true) leaves active the state that
   transition() leaves active for the same registry, active name and
   predicate results, the earliest matching entry in insertion order, and
   calls the same entries. *)
ScanEquivalence ==
    [][(lastOp' = "run(true)" /\ ~crashed') =>
          \E n \in {NumAdv(calls')} :
          \E t \in {transitionLoop([i \in 1..Len(states) |->
                                      IF i <= n THEN calls'[i + 1].out ELSE "false"])} :
              /\ ~t.fault
              /\ Len(t.events) = n
              /\ \A i \in 1..n : t.events[i] = calls'[i + 1]
              /\ dummyState' = (IF t.hit = 0 THEN dummyState ELSE states[t.hit])
              /\ t.hit # 0 =>
                    /\ calls'[t.hit + 1].out = "true"
                    /\ \A j \in 1..(t.hit - 1) :
                          ~(calls'[j + 1].out = "true" /\ states[j].stateName # ActiveName)]_vars

\* C8 witness: run(true) ticked true, passed over the active state's own
\* entry and made the second entry active.
ScanEquivalenceWitness ==
    /\ Returned("run(true)")
    /\ lastRet
    /\ Len(states) = 2
    /\ Len(calls) = 4
    /\ calls[2].name = states[1].stateName
    /\ calls[2].name = calls[1].name
    /\ calls[2].out = "true"
    /\ calls[4].kind = "assign"
    /\ dummyState = states[2]

(* C9 -- No self-election: a transition() or run(true) scan never assigns to
   activeState an entry whose name is the active name at the start of the
   scan, even when that entry's transitionToState returned true. *)
NoSelfElection ==
    [][lastOp' \in {"transition", "run(true)"} =>
          /\ \A i \in 1..Len(calls') :
                calls'[i].kind = "assign" => calls'[i].name # ActiveName
          /\ dummyState' = dummyState \/ dummyState'.stateName # ActiveName]_vars

\* C9 witness: the active state's own entry accepted through a bound
\* predicate and transition() returned false.
NoSelfElectionWitness ==
    /\ Returned("transition")
    /\ ~lastRet
    /\ \E i \in 1..Len(calls) :
          /\ calls[i].kind = "advertise"
          /\ calls[i].name = ActiveName
          /\ calls[i].fn = "transition"
          /\ calls[i].out = "true"

(* C10 -- Default predicates: the stateFunction and the transitionToState of
   a state that addState created and nothing bound return false whenever
   they are called, so run() on such a state returns false and no scan
   selects it. *)
DefaultPredicatesFalse ==
    \A i \in 1..Len(calls) :
        (calls[i].kind \in {"tick", "advertise"} /\ calls[i].fn = "uninit")
            => calls[i].out = "false"

(* C11 -- addState("dummyState") returns false and leaves the registry as it
   was, in every reachable state, the freshly constructed object included. *)
ReservedNameRejected ==
    [][(lastOp' = "addState" /\ lastName' = DummyName)
            => (~lastRet' /\ states' = states)]_vars

(* C12 -- setStateFunction("dummyState", f) and
   setTransitionToState("dummyState", g) return false and leave the sentinel's
   predicates as they were, also after a removeState has emptied the
   registry. *)
SentinelNotBindable ==
    [][(lastOp' \in {"setStateFunction", "setTransitionToState"} /\ lastName' = DummyName)
            => (~lastRet' /\ states' = states /\ dummyState' = dummyState)]_vars

(* C13 -- addState(n) with n already in the registry returns false and leaves
   the registry (entries, order, bound predicates) and the active state as
   they were. *)
AddIdempotent ==
    [][(lastOp' = "addState" /\ lastName' \in RegistryNames)
            => (~lastRet' /\ states' = states /\ dummyState' = dummyState)]_vars

\* A rejected addState of a name whose entry has a bound stateFunction, in a
\* registry of two entries.
AddIdempotentWitness ==
    /\ Returned("addState")
    /\ ~lastRet
    /\ Len(states) = 2
    /\ \E i \in 1..Len(states) :
          states[i].stateName = lastName /\ states[i].stateFunction \in TickFns

(* C14 -- removeState, transition(name), setStateFunction and
   setTransitionToState called with a name that is not in the registry return
   false and leave the registry and the active state as they were. *)
NotFoundRejected ==
    [][(/\ lastOp' \in {"removeState", "transitionTo", "setStateFunction", "setTransitionToState"}
        /\ lastName' \notin RegistryNames)
            => (~lastRet' /\ states' = states /\ dummyState' = dummyState)]_vars

\* A rejected transition(name) with an unknown name while a user state is
\* active and the registry is not empty.
NotFoundRejectedWitness ==
    /\ Returned("transitionTo")
    /\ ~lastRet
    /\ lastName \notin RegistryNames
    /\ ActiveName \in UserNames
    /\ Len(states) > 0

(* C15 -- whenever removeState(n) returns true for a user-added name n, the
   registry afterwards has no entry named n, so a removeState(n) that follows
   immediately returns false and an addState(n) that follows immediately
   returns true. *)
RemoveDestroys ==
    [][/\ (lastOp' = "removeState" /\ lastRet' /\ lastName' \in UserNames)
            => lastName' \notin RegistryNames'
       /\ (/\ Returned("removeState") /\ lastRet /\ lastName \in UserNames
           /\ lastName' = lastName /\ lastOp' = "removeState")
            => ~lastRet'
       /\ (/\ Returned("removeState") /\ lastRet /\ lastName \in UserNames
           /\ lastName' = lastName /\ lastOp' = "addState")
            => lastRet']_vars

(* C16 -- addState, setStateFunction, setTransitionToState, run() and
   run(false), and removeState of a name other than the active one never
   change the active state's name; the name changes only through a successful
   transition(name), a matching scan in transition() / run(true), or
   removeState of the active state. *)
ActiveFrame ==
    [][/\ (\/ lastOp' \in {"addState", "setStateFunction", "setTransitionToState",
                           "run", "run(false)"}
           \/ (lastOp' = "removeState" /\ lastName' # ActiveName))
            => ActiveName' = ActiveName
       /\ (ActiveName' # ActiveName)
            => \/ lastOp' = "transitionTo" /\ lastRet'
               \/ /\ lastOp' \in {"transition", "run(true)"}
                  /\ \E i \in 1..Len(calls') : calls'[i].kind = "assign"
               \/ lastOp' = "removeState" /\ lastName' = ActiveName]_vars

\* A successful removeState of a state other than the active one, while a user
\* state is active.
ActiveFrameWitness ==
    /\ Returned("removeState")
    /\ lastRet
    /\ lastName # ActiveName
    /\ ActiveName \in UserNames

(* C17 -- after setStateFunction(n, f) returns true while n is the active
   state, the next run() invokes f and returns f's result, with no
   transition(n) in between.  Stated for an active state whose stateFunction
   was bound before, so that no call goes through an indeterminate pointer. *)
BindTickTakesEffect ==
    [][(/\ Returned("setStateFunction") /\ lastRet /\ lastName = ActiveName
        /\ activeState.stateFunction \in RebindFns
        /\ lastOp' = "run")
            => (/\ calls'[1].kind = "tick"
                /\ calls'[1].fn = lastFn
                /\ lastRet' = (lastFn = "retTrue"))]_vars

(* C18 -- no scan (transition() or run(true)) invokes the sentinel's
   transitionToState, and whenever the active name is "dummyState" run()
   returns false. *)
SentinelQuiet ==
    [][/\ (lastOp' \in {"transition", "run(true)"})
            => \A i \in 1..Len(calls') :
                  calls'[i].kind = "advertise"
                      => (calls'[i].name # DummyName /\ calls'[i].fn # "dummyTransitionToState")
       /\ (ActiveName = DummyName /\ lastOp' = "run")
            => ~lastRet']_vars

(* C19 -- a successful setStateFunction(n, f) changes only the stateFunction
   of registry entry n: the transitionToState of n, both pointers of every
   other entry, the order of the registry and the active state's name stay as
   they were. *)
BindingLocality ==
    [][(lastOp' = "setStateFunction" /\ lastRet') =>
          /\ Len(states') = Len(states)
          /\ \A i \in 1..Len(states) :
                /\ states'[i].stateName = states[i].stateName
                /\ states'[i].transitionToState = states[i].transitionToState
                /\ states[i].stateName # lastName'
                      => states'[i].stateFunction = states[i].stateFunction
                /\ states[i].stateName = lastName'
                      => states'[i].stateFunction = lastFn'
          /\ ActiveName' = ActiveName]_vars

\* A successful setStateFunction in a registry of two entries, the other of
\* which holds a different stateFunction.
BindingLocalityWitness ==
    /\ Returned("setStateFunction")
    /\ lastRet
    /\ Len(states) = 2
    /\ \E i, j \in 1..Len(states) :
          /\ states[i].stateName = lastName
          /\ states[i].stateFunction = lastFn
          /\ states[j].stateName # lastName
          /\ states[j].stateFunction # lastFn

(* C20 -- removeState of a state that is neither active nor the last
   remaining entry deletes exactly that entry: every other entry stays in the
   registry with its pointers, and the relative order of the survivors is the
   one they had. *)
RemoveExactlyOne ==
    [][(lastOp' = "removeState" /\ lastRet' /\ lastName' # ActiveName /\ Len(states) > 1) =>
          /\ Len(states') = Len(states) - 1
          /\ states' = SelectSeq(states, LAMBDA s : s.stateName # lastName')
          /\ dummyState' = dummyState]_vars

\* A successful removeState of a non-active state that left two survivors, the
\* second of them with a bound stateFunction.
RemoveExactlyOneWitness ==
    /\ Returned("removeState")
    /\ lastRet
    /\ lastName # ActiveName
    /\ lastName \notin RegistryNames
    /\ Len(states) = 2
    /\ states[2].stateFunction \in TickFns

====
